---- MODULE Spec2Model ----
(***************************************************************************)
(* Model of src/mod.ts (skamenetskiy/deno-router): the router object       *)
(* returned by router(), its registration functions, and the dispatch      *)
(* pipeline route() -> createRouterHandler/createDenoHandler ->            *)
(* runMiddlewares -> handler.                                              *)
(*                                                                         *)
(* Functions (handlers, middleware, error handlers) are identified by      *)
(* names; what a user function does when it is called (return or throw)    *)
(* is a nondeterministic choice made at the call.  A closure is a record   *)
(* of the values it captured when it was created.                          *)
(***************************************************************************)
EXTENDS Integers, Sequences, FiniteSets, TLC

\* ------------------------------------------------------------- bounds
MaxCalls == 4       \* configuration calls the application makes
MaxOps == 3         \* set/get/del calls made on a store taken on its own

\* ------------------------------------------------------------- inputs
Reqs == {1}                         \* request slots of the serve primitive
RegNames == {"get", "post"}         \* registration functions exercised
RequestMethods == {"GET"}           \* methods of inbound requests
UseCounts == {1}                    \* number of middleware given to use()
RouteMwCounts == {0, 2}             \* number given to a registration
NotFoundHandlers == {"n1"}          \* handlers given to onNotFound
CustomErrorHandlers == {"e1"}       \* handlers given to onError
Keys == {"k1", "k2"}                \* keys given to userData
Values == {"v1", "v2", "undefined"} \* values given to userData.set
\* a path or a pattern is the sequence of its segments
Patterns == {<<"a">>, <<":id">>}    \* "/a", "/:id"
Paths == {<<"a">>, <<"b">>}         \* "/a", "/b"

\* every function handed to the router is a distinct object: the k-th
\* middleware given to use(), the j-th middleware of a registration, the
\* handler of the k-th registration
GlobalMw(k) == <<"g", k>>
RouteMw(j) == <<"r", j>>
RouteHandler(k) == <<"h", k>>
GlobalArgs(from, n) == [j \in 1..n |-> GlobalMw(from + j)]
RouteArgs(n) == [j \in 1..n |-> RouteMw(j)]

DefaultErrorHandler == "default500"   \* (_, err) => Response 500
DefaultNotFound == "default404"       \* () => Response 404
None == "none"

VARIABLES
  routes,             \* const routes: Route[]
  globalMiddlewares,  \* const globalMiddlewares: Middleware[]
  errorHandler,       \* let errorHandler
  notFoundHandler,    \* let notFoundHandler (a compiled denoHandler)
  listening,          \* listen() has been called
  served,             \* defaultHandler captured by route() inside listen()
  perRoute,           \* history: the ...middlewares of each registration
  listenLen,          \* history: Len(routes) when listen() was called
  calls,              \* history: configuration calls made so far
  pc,                 \* per request: position in the dispatch pipeline
  req,                \* per request: the inbound request
  matched,            \* per request: index of the route chosen, 0 = none
  chain,              \* per request: the closure that serves it
  idx,                \* per request: position of the for loop
  trace,              \* per request: calls made, in order
  outcome,            \* per request: what the dispatch function produced
  ehState,            \* per request: the promise of an async error handler
  heap,               \* the Map objects made by createUserData, by identity
  ctxStore,           \* per request: the Map behind ctx.userData, 0 = no ctx
  ops,                \* history: set/get/del calls made on one store
  ret                 \* what the last of those calls returned

config == <<routes, globalMiddlewares, errorHandler, notFoundHandler,
            listening, served, perRoute, listenLen, calls>>
flight == <<pc, req, matched, chain, idx, trace, outcome>>
vars == <<routes, globalMiddlewares, errorHandler, notFoundHandler,
          listening, served, perRoute, listenLen, calls,
          pc, req, matched, chain, idx, trace, outcome,
          ehState, heap, ctxStore, ops, ret>>
store == <<heap, ctxStore, ops, ret>>

\* ------------------------------------------------------------ helpers
\* a method name stored as it was given
keepCase(m) == m

\* String.prototype.toUpperCase on the names given to factory()
toUpperCase(m) ==
  CASE m = "get" -> "GET"
    [] m = "post" -> "POST"
    [] m = "put" -> "PUT"
    [] m = "delete" -> "DELETE"
    [] m = "patch" -> "PATCH"

\* the closure returned by createRouterHandler
createRouterHandler(handler, eh, middlewares) ==
  [kind |-> "router", handler |-> handler, errorHandler |-> eh,
   middlewares |-> middlewares]

\* the closure returned by createDenoHandler
createDenoHandler(handler, eh, middlewares) ==
  [kind |-> "deno", handler |-> handler, errorHandler |-> eh,
   middlewares |-> middlewares]

\* the initial notFoundHandler: no context, no middleware, a fixed 404
defaultNotFoundHandler ==
  [kind |-> "default", handler |-> DefaultNotFound, errorHandler |-> None,
   middlewares |-> <<>>]

\* URLPattern({pathname}).exec on segment sequences: a literal segment
\* matches itself, a ":name" segment matches any one segment
segmentMatches(p, s) == IF p = ":id" THEN TRUE ELSE p = s

patternMatches(pattern, path) ==
  /\ Len(pattern) = Len(path)
  /\ \A i \in 1..Len(pattern) : segmentMatches(pattern[i], path[i])

\* route(): a route's method array holds the request's method
methodMatches(routeMethod, requestMethod) ==
  \E i \in 1..Len(routeMethod) : routeMethod[i] = requestMethod

\* a table entry that takes any request whose path matches
routeTakesAnyMethod(rt, request) ==
  patternMatches(rt.pattern, request.path)

\* route(): does this table entry take the request
routeTakes(rt, request) ==
  /\ methodMatches(rt.method, request.method)
  /\ patternMatches(rt.pattern, request.path)

\* route(): scan the table from the front, 0 when no entry takes the request
RECURSIVE routeScan(_, _, _)
routeScan(table, i, request) ==
  IF i > Len(table) THEN 0
  ELSE IF routeTakes(table[i], request) THEN i
  ELSE routeScan(table, i + 1, request)

\* a table copied when listen() was called
routeTableAtListen(current, lenAtListen) == SubSeq(current, 1, lenAtListen)

\* the array route() iterates on each request: the routes array itself,
\* which listen() hands to route() by reference
routeTable(current, lenAtListen) == current

\* a fall-through to the last table entry scanned
fallbackLastRoute(capturedAtListen, current, table) ==
  IF Len(table) > 0 THEN table[Len(table)].handler ELSE capturedAtListen

\* the defaultHandler the dispatch function falls back to: the value
\* notFoundHandler had when listen() handed it to route()
fallbackHandler(capturedAtListen, current, table) == capturedAtListen

Event(e, id) == [e |-> e, id |-> id]
NoOutcome == [type |-> None, by |-> None]
Response(by) == [type |-> "response", by |-> by]
Rejected(by) == [type |-> "rejected", by |-> by]
NoRequest == [method |-> None, path |-> <<>>]

\* ------------------------------------------------------------ userData
Undefined == "undefined"

\* a Map is the sequence of its entries, in insertion order
mapHas(m, key) == \E i \in 1..Len(m) : m[i].key = key

\* Map.prototype.get: the value of the entry under key, undefined without one
mapGet(m, key) ==
  IF mapHas(m, key)
  THEN LET i == CHOOSE j \in 1..Len(m) :
                  m[j].key = key /\ \A h \in 1..(j - 1) : m[h].key # key
       IN m[i].value
  ELSE Undefined

\* Map.prototype.set: the entry under key takes the value where it stands,
\* a new key is entered at the end
mapSet(m, key, value) ==
  IF mapHas(m, key)
  THEN [i \in 1..Len(m) |->
          IF m[i].key = key THEN [key |-> key, value |-> value] ELSE m[i]]
  ELSE Append(m, [key |-> key, value |-> value])

\* Map.prototype.delete: the entry is removed; true when there was one
mapDelete(m, key) ==
  LET Other(e) == e.key # key
  IN [map |-> SelectSeq(m, Other), result |-> mapHas(m, key)]

\* createUserData: const store = new Map()
createUserData == <<>>

\* a set that leaves a key it already holds as it is
setKeepsFirst(m, key, value) ==
  IF mapHas(m, key) THEN m ELSE mapSet(m, key, value)

\* createUserData: set = (key, value) => store.set(key, value)
udSet(m, key, value) == mapSet(m, key, value)

\* createUserData: get = (key) => store.get(key)
udGet(m, key) == mapGet(m, key)

\* createUserData: del = (key) => store.delete(key)
udDel(m, key) == mapDelete(m, key)

\* one Map shared by every context
sharedStore(r) == 1

\* createContext: userData: createUserData() -- each call makes a Map of its
\* own; the Map made for the request in slot r is named r
newStore(r) == r

\* ---------------------------------------------------------------- Init
Init ==
  /\ routes = <<>>
  /\ globalMiddlewares = <<>>
  /\ errorHandler = DefaultErrorHandler
  /\ notFoundHandler = defaultNotFoundHandler
  /\ listening = FALSE
  /\ served = defaultNotFoundHandler
  /\ perRoute = <<>>
  /\ listenLen = 0
  /\ calls = 0
  /\ pc = [r \in Reqs |-> "idle"]
  /\ req = [r \in Reqs |-> NoRequest]
  /\ matched = [r \in Reqs |-> 0]
  /\ chain = [r \in Reqs |-> defaultNotFoundHandler]
  /\ idx = [r \in Reqs |-> 0]
  /\ trace = [r \in Reqs |-> <<>>]
  /\ outcome = [r \in Reqs |-> NoOutcome]
  /\ ehState = [r \in Reqs |-> None]
  /\ heap = [r \in Reqs |-> createUserData]
  /\ ctxStore = [r \in Reqs |-> 0]
  /\ ops = <<>>
  /\ ret = None

\* ------------------------------------------------------- configuration
\* use(...middlewares)
usePush(current, middlewares) == current \o middlewares

Use(middlewares) ==
  /\ calls < MaxCalls
  /\ calls' = calls + 1
  /\ globalMiddlewares' = usePush(globalMiddlewares, middlewares)
  /\ UNCHANGED <<routes, errorHandler, notFoundHandler, listening, served,
                 perRoute, listenLen>>
  /\ UNCHANGED <<flight, ehState, store>>

\* onError(handler)
OnError(handler) ==
  /\ calls < MaxCalls
  /\ calls' = calls + 1
  /\ errorHandler' = handler
  /\ UNCHANGED <<routes, globalMiddlewares, notFoundHandler, listening,
                 served, perRoute, listenLen>>
  /\ UNCHANGED <<flight, ehState, store>>

\* a not-found handler compiled without the global middleware
compileNotFoundBare(handler, eh, globals) ==
  createDenoHandler(handler, eh, <<>>)

\* onNotFound(handler)
compileNotFound(handler, eh, globals) ==
  createDenoHandler(handler, eh, globals)

OnNotFound(handler) ==
  /\ calls < MaxCalls
  /\ calls' = calls + 1
  /\ notFoundHandler' =
       compileNotFound(handler, errorHandler, globalMiddlewares)
  /\ UNCHANGED <<routes, globalMiddlewares, errorHandler, listening, served,
                 perRoute, listenLen>>
  /\ UNCHANGED <<flight, ehState, store>>

\* a chain that puts the registration's own middleware first
routeChainOwnFirst(globals, middlewares) == middlewares \o globals

\* a chain made of the registration's own middleware alone
routeChainOwnOnly(globals, middlewares) == middlewares

\* the middleware array of a registration: [...globalMiddlewares, ...middlewares]
routeChain(globals, middlewares) == globals \o middlewares

\* the Route pushed by factory(method)(pattern, handler, ...middlewares)
newRoute(method, pattern, handler, eh, globals, middlewares) ==
  [method |-> <<toUpperCase(method)>>,
   pattern |-> pattern,
   handler |-> createRouterHandler(handler, eh,
                                   routeChain(globals, middlewares))]

\* a registration that puts the new route in front of the table
routesUnshift(table, rt) == <<rt>> \o table

\* routes.push(route)
routesPush(table, rt) == Append(table, rt)

\* get/post/put/delete/patch (pattern, handler, ...middlewares)
Register(method, pattern, handler, middlewares) ==
  /\ calls < MaxCalls
  /\ calls' = calls + 1
  /\ routes' = routesPush(routes, newRoute(method, pattern, handler,
                                           errorHandler, globalMiddlewares,
                                           middlewares))
  /\ perRoute' = Append(perRoute, middlewares)
  /\ UNCHANGED <<globalMiddlewares, errorHandler, notFoundHandler, listening,
                 served, listenLen>>
  /\ UNCHANGED <<flight, ehState, store>>

\* listen(): Deno.serve({handler: route(routes, notFoundHandler)})
Listen ==
  /\ ~listening
  /\ calls < MaxCalls
  /\ calls' = calls + 1
  /\ listening' = TRUE
  /\ served' = notFoundHandler
  /\ listenLen' = Len(routes)
  /\ UNCHANGED <<routes, globalMiddlewares, errorHandler, notFoundHandler,
                 perRoute>>
  /\ UNCHANGED <<flight, ehState, store>>

\* ------------------------------------------------------------ dispatch
\* the serve primitive calls the dispatch function built by route()
Dispatch(r, method, path) ==
  /\ listening
  /\ pc[r] = "idle"
  /\ LET request == [method |-> method, path |-> path]
         table == routeTable(routes, listenLen)
         i == routeScan(table, 1, request)
         c == IF i = 0 THEN fallbackHandler(served, notFoundHandler, table)
              ELSE table[i].handler
     IN /\ req' = [req EXCEPT ![r] = request]
        /\ matched' = [matched EXCEPT ![r] = i]
        /\ chain' = [chain EXCEPT ![r] = c]
        /\ idx' = [idx EXCEPT ![r] = 1]
        /\ IF c.kind = "default"
           THEN /\ pc' = [pc EXCEPT ![r] = "done"]
                /\ trace' = [trace EXCEPT ![r] = <<Event("handlerStart", c.handler),
                                                   Event("handlerOk", c.handler)>>]
                /\ outcome' = [outcome EXCEPT ![r] = Response(c.handler)]
                /\ UNCHANGED <<heap, ctxStore>>
           ELSE /\ pc' = [pc EXCEPT ![r] = "loop"]
                /\ trace' = [trace EXCEPT ![r] = <<>>]
                /\ outcome' = [outcome EXCEPT ![r] = NoOutcome]
                /\ ctxStore' = [ctxStore EXCEPT ![r] = newStore(r)]
                /\ heap' = [heap EXCEPT ![newStore(r)] = createUserData]
  /\ UNCHANGED <<config, ehState, ops, ret>>

\* runMiddlewares: for (const mw of middlewares) { await mw(ctx) -- the call
MwStart(r) ==
  /\ pc[r] = "loop"
  /\ idx[r] <= Len(chain[r].middlewares)
  /\ pc' = [pc EXCEPT ![r] = "inmw"]
  /\ trace' = [trace EXCEPT ![r] =
                 Append(@, Event("mwStart", chain[r].middlewares[idx[r]]))]
  /\ UNCHANGED <<req, matched, chain, idx, outcome>>
  /\ UNCHANGED <<config, ehState, store>>

\* a loop that stays on the element it has just run
sameElement(i) == i

\* runMiddlewares: for (const mw of middlewares) moves to the next element
nextElement(i) == i + 1

\* runMiddlewares: the awaited middleware resolved, next iteration
MwReturn(r) ==
  /\ pc[r] = "inmw"
  /\ pc' = [pc EXCEPT ![r] = "loop"]
  /\ idx' = [idx EXCEPT ![r] = nextElement(@)]
  /\ trace' = [trace EXCEPT ![r] =
                 Append(@, Event("mwOk", chain[r].middlewares[idx[r]]))]
  /\ UNCHANGED <<req, matched, chain, outcome>>
  /\ UNCHANGED <<config, ehState, store>>

\* a catch inside the loop: the error handler is called and the loop goes on
afterCatchInLoop(tr, mw, eh) ==
  [trace |-> tr \o <<Event("mwFail", mw), Event("errorHandler", eh)>>,
   pc |-> "loop",
   outcome |-> NoOutcome]

\* runMiddlewares: what the catch block leaves behind: the error handler
\* was called, it returned and its result was dropped; runMiddlewares then
\* resolves
afterCatch(tr, mw, eh) ==
  [trace |-> tr \o <<Event("mwFail", mw), Event("errorHandler", eh)>>,
   pc |-> "call",
   outcome |-> NoOutcome]

\* runMiddlewares: the awaited middleware threw or rejected
MwThrow(r) ==
  /\ pc[r] = "inmw"
  /\ LET a == afterCatch(trace[r], chain[r].middlewares[idx[r]],
                         chain[r].errorHandler)
     IN /\ trace' = [trace EXCEPT ![r] = a.trace]
        /\ pc' = [pc EXCEPT ![r] = a.pc]
        /\ outcome' = [outcome EXCEPT ![r] = a.outcome]
  /\ UNCHANGED <<req, matched, chain, idx>>
  /\ UNCHANGED <<config, ehState, store>>

\* runMiddlewares: what the catch block leaves behind when the error handler
\* is an async function: the call returns a promise that nothing awaits,
\* runMiddlewares resolves while the error handler is still running
afterCatchAsync(tr, mw, eh) ==
  [trace |-> tr \o <<Event("mwFail", mw), Event("errorHandlerStart", eh)>>,
   pc |-> "call",
   outcome |-> NoOutcome,
   ehState |-> "running"]

\* runMiddlewares: the awaited middleware threw or rejected and the error
\* handler is an async function
MwThrowAsync(r) ==
  /\ pc[r] = "inmw"
  /\ chain[r].errorHandler \in CustomErrorHandlers
  /\ LET a == afterCatchAsync(trace[r], chain[r].middlewares[idx[r]],
                              chain[r].errorHandler)
     IN /\ trace' = [trace EXCEPT ![r] = a.trace]
        /\ pc' = [pc EXCEPT ![r] = a.pc]
        /\ outcome' = [outcome EXCEPT ![r] = a.outcome]
        /\ ehState' = [ehState EXCEPT ![r] = a.ehState]
  /\ UNCHANGED <<req, matched, chain, idx>>
  /\ UNCHANGED <<config, store>>

\* the promise of the async error handler settles; nothing receives what it
\* settles with
EhSettle(r) ==
  /\ ehState[r] = "running"
  /\ ehState' = [ehState EXCEPT ![r] = "settled"]
  /\ trace' = [trace EXCEPT ![r] =
                 Append(@, Event("errorHandlerEnd", chain[r].errorHandler))]
  /\ UNCHANGED <<pc, req, matched, chain, idx, outcome>>
  /\ UNCHANGED <<config, store>>

\* runMiddlewares: what is left when the error handler called in the catch
\* block throws: the error leaves runMiddlewares and the dispatch function,
\* handler(ctx) is not reached
afterCatchThrows(tr, mw, eh) ==
  [trace |-> tr \o <<Event("mwFail", mw), Event("errorHandlerFail", eh)>>,
   pc |-> "done",
   outcome |-> Rejected(eh)]

\* runMiddlewares: the awaited middleware threw or rejected and the error
\* handler (a user function) threw in its turn
MwThrowHandlerThrows(r) ==
  /\ pc[r] = "inmw"
  /\ chain[r].errorHandler \in CustomErrorHandlers
  /\ LET a == afterCatchThrows(trace[r], chain[r].middlewares[idx[r]],
                               chain[r].errorHandler)
     IN /\ trace' = [trace EXCEPT ![r] = a.trace]
        /\ pc' = [pc EXCEPT ![r] = a.pc]
        /\ outcome' = [outcome EXCEPT ![r] = a.outcome]
  /\ UNCHANGED <<req, matched, chain, idx>>
  /\ UNCHANGED <<config, ehState, store>>

\* runMiddlewares: the loop ran out, runMiddlewares resolves
MwDone(r) ==
  /\ pc[r] = "loop"
  /\ idx[r] > Len(chain[r].middlewares)
  /\ pc' = [pc EXCEPT ![r] = "call"]
  /\ UNCHANGED <<req, matched, chain, idx, trace, outcome>>
  /\ UNCHANGED <<config, ehState, store>>

\* a handler given a context made anew, with a store of its own
ctxForHandlerFresh(m) == createUserData

\* createRouterHandler / createDenoHandler: handler(ctx) is given the ctx
\* that runMiddlewares was given, so the Map behind its userData is the one
\* the middleware wrote to, as they left it
ctxForHandler(m) == m

\* createRouterHandler / createDenoHandler: return handler(ctx) -- the call
HandlerStart(r) ==
  /\ pc[r] = "call"
  /\ pc' = [pc EXCEPT ![r] = "inhandler"]
  /\ trace' = [trace EXCEPT ![r] =
                 Append(@, Event("handlerStart", chain[r].handler))]
  /\ heap' = [heap EXCEPT ![ctxStore[r]] = ctxForHandler(@)]
  /\ UNCHANGED <<req, matched, chain, idx, outcome>>
  /\ UNCHANGED <<config, ehState, ctxStore, ops, ret>>

\* the handler returned (or resolved with) a Response
HandlerReturn(r) ==
  /\ pc[r] = "inhandler"
  /\ pc' = [pc EXCEPT ![r] = "done"]
  /\ trace' = [trace EXCEPT ![r] =
                 Append(@, Event("handlerOk", chain[r].handler))]
  /\ outcome' = [outcome EXCEPT ![r] = Response(chain[r].handler)]
  /\ UNCHANGED <<req, matched, chain, idx>>
  /\ UNCHANGED <<config, ehState, store>>

\* a handler failure caught and answered by the error handler
afterHandlerThrowCaught(tr, handler, eh) ==
  [trace |-> tr \o <<Event("handlerFail", handler), Event("errorHandler", eh)>>,
   outcome |-> Response(eh)]

\* what a throwing handler leaves behind: nothing catches it, the promise
\* returned by the dispatch function rejects
afterHandlerThrow(tr, handler, eh) ==
  [trace |-> Append(tr, Event("handlerFail", handler)),
   outcome |-> Rejected(handler)]

\* the handler threw or rejected
HandlerThrow(r) ==
  /\ pc[r] = "inhandler"
  /\ LET a == afterHandlerThrow(trace[r], chain[r].handler,
                                chain[r].errorHandler)
     IN /\ trace' = [trace EXCEPT ![r] = a.trace]
        /\ outcome' = [outcome EXCEPT ![r] = a.outcome]
  /\ pc' = [pc EXCEPT ![r] = "done"]
  /\ UNCHANGED <<req, matched, chain, idx>>
  /\ UNCHANGED <<config, ehState, store>>

\* the serve primitive delivered the outcome; once nothing of the request
\* is running any more its context is garbage and the slot takes a new
\* request
Deliver(r) ==
  /\ pc[r] = "done"
  /\ ehState[r] # "running"
  /\ pc' = [pc EXCEPT ![r] = "idle"]
  /\ req' = [req EXCEPT ![r] = NoRequest]
  /\ matched' = [matched EXCEPT ![r] = 0]
  /\ chain' = [chain EXCEPT ![r] = defaultNotFoundHandler]
  /\ idx' = [idx EXCEPT ![r] = 0]
  /\ trace' = [trace EXCEPT ![r] = <<>>]
  /\ outcome' = [outcome EXCEPT ![r] = NoOutcome]
  /\ ehState' = [ehState EXCEPT ![r] = None]
  /\ ctxStore' = [ctxStore EXCEPT ![r] = 0]
  /\ heap' = IF ctxStore[r] = 0 THEN heap
             ELSE [heap EXCEPT ![ctxStore[r]] = createUserData]
  /\ UNCHANGED <<config, ops, ret>>

Next ==
  \/ \E n \in UseCounts : Use(GlobalArgs(Len(globalMiddlewares), n))
  \/ \E h \in CustomErrorHandlers : OnError(h)
  \/ \E h \in NotFoundHandlers : OnNotFound(h)
  \/ \E m \in RegNames, p \in Patterns, n \in RouteMwCounts :
        Register(m, p, RouteHandler(Len(routes) + 1), RouteArgs(n))
  \/ Listen
  \/ \E r \in Reqs, m \in RequestMethods, p \in Paths : Dispatch(r, m, p)
  \/ \E r \in Reqs : MwStart(r)
  \/ \E r \in Reqs : MwReturn(r)
  \/ \E r \in Reqs : MwThrow(r)
  \/ \E r \in Reqs : MwThrowHandlerThrows(r)
  \/ \E r \in Reqs : MwDone(r)
  \/ \E r \in Reqs : HandlerStart(r)
  \/ \E r \in Reqs : HandlerReturn(r)
  \/ \E r \in Reqs : HandlerThrow(r)
  \/ \E r \in Reqs : Deliver(r)

Spec == Init /\ [][Next]_vars

\* ------------------------------------------------ a store on its own
\* the store of one context, driven by any sequence of set/get/del calls
StoreSet(r, key, value) ==
  /\ Len(ops) < MaxOps
  /\ heap' = [heap EXCEPT ![newStore(r)] = udSet(@, key, value)]
  /\ ret' = "store"
  /\ ops' = Append(ops, [op |-> "set", key |-> key, value |-> value])
  /\ UNCHANGED <<config, flight, ehState, ctxStore>>

StoreGet(r, key) ==
  /\ Len(ops) < MaxOps
  /\ ret' = udGet(heap[newStore(r)], key)
  /\ ops' = Append(ops, [op |-> "get", key |-> key, value |-> Undefined])
  /\ UNCHANGED <<config, flight, ehState, ctxStore, heap>>

StoreDel(r, key) ==
  /\ Len(ops) < MaxOps
  /\ LET d == udDel(heap[newStore(r)], key)
     IN /\ heap' = [heap EXCEPT ![newStore(r)] = d.map]
        /\ ret' = d.result
  /\ ops' = Append(ops, [op |-> "del", key |-> key, value |-> Undefined])
  /\ UNCHANGED <<config, flight, ehState, ctxStore>>

NextStore ==
  \/ \E r \in Reqs, key \in Keys, value \in Values : StoreSet(r, key, value)
  \/ \E r \in Reqs, key \in Keys : StoreGet(r, key)
  \/ \E r \in Reqs, key \in Keys : StoreDel(r, key)

SpecStore == Init /\ [][NextStore]_vars

\* ------------------------------------- a serving router, two requests
\* The application has made the calls
\*   onError(e1); use(g1); get("/a", h1, r1, r2); onNotFound(n1); listen()
\* and the serve primitive has up to two requests in flight at a time.  The
\* user functions of a request read and write ctx.userData while they run.
ConcReqs == {1, 2}
ConcKeys == {"k1"}
Roles == {"mw", "handler", "eh"}

ServingErrorHandler == CHOOSE h \in CustomErrorHandlers : TRUE
ServingGlobals == usePush(<<>>, GlobalArgs(0, 1))
ServingOwn == RouteArgs(2)
ServingRoutes ==
  routesPush(<<>>, newRoute("get", <<"a">>, RouteHandler(1),
                            ServingErrorHandler, ServingGlobals, ServingOwn))
ServingNotFound ==
  compileNotFound(CHOOSE h \in NotFoundHandlers : TRUE, ServingErrorHandler,
                  ServingGlobals)

InitServing ==
  /\ routes = ServingRoutes
  /\ globalMiddlewares = ServingGlobals
  /\ errorHandler = ServingErrorHandler
  /\ notFoundHandler = ServingNotFound
  /\ listening = TRUE
  /\ served = ServingNotFound
  /\ perRoute = <<ServingOwn>>
  /\ listenLen = Len(ServingRoutes)
  /\ calls = 5
  /\ pc = [r \in ConcReqs |-> "idle"]
  /\ req = [r \in ConcReqs |-> NoRequest]
  /\ matched = [r \in ConcReqs |-> 0]
  /\ chain = [r \in ConcReqs |-> defaultNotFoundHandler]
  /\ idx = [r \in ConcReqs |-> 0]
  /\ trace = [r \in ConcReqs |-> <<>>]
  /\ outcome = [r \in ConcReqs |-> NoOutcome]
  /\ ehState = [r \in ConcReqs |-> None]
  /\ heap = [r \in ConcReqs |-> createUserData]
  /\ ctxStore = [r \in ConcReqs |-> 0]
  /\ ops = <<>>
  /\ ret = None

\* the user functions of request r that are running
RunningRoles(r) ==
  {role \in Roles :
     \/ role = "mw" /\ pc[r] = "inmw"
     \/ role = "handler" /\ pc[r] = "inhandler"
     \/ role = "eh" /\ ehState[r] = "running"}

\* the value a function stores: it names the request and the function's role
Stamp(r, role) ==
  CASE r = 1 /\ role = "mw" -> "1:mw"
    [] r = 1 /\ role = "handler" -> "1:handler"
    [] r = 1 /\ role = "eh" -> "1:eh"
    [] r = 2 /\ role = "mw" -> "2:mw"
    [] r = 2 /\ role = "handler" -> "2:handler"
    [] r = 2 /\ role = "eh" -> "2:eh"

\* a running function of request r calls ctx.userData.set(key, its stamp)
UdSet(r, role, key) ==
  /\ role \in RunningRoles(r)
  /\ heap' = [heap EXCEPT ![ctxStore[r]] = udSet(@, key, Stamp(r, role))]
  /\ heap' # heap
  /\ UNCHANGED <<config, flight, ehState, ctxStore, ops, ret>>

\* a running function of request r calls ctx.userData.del(key)
UdDel(r, key) ==
  /\ RunningRoles(r) # {}
  /\ heap' = [heap EXCEPT ![ctxStore[r]] = udDel(@, key).map]
  /\ heap' # heap
  /\ UNCHANGED <<config, flight, ehState, ctxStore, ops, ret>>

NextServing ==
  \/ \E r \in ConcReqs, m \in RequestMethods, p \in Paths : Dispatch(r, m, p)
  \/ \E r \in ConcReqs : MwStart(r)
  \/ \E r \in ConcReqs : MwReturn(r)
  \/ \E r \in ConcReqs : MwThrow(r)
  \/ \E r \in ConcReqs : MwThrowAsync(r)
  \/ \E r \in ConcReqs : EhSettle(r)
  \/ \E r \in ConcReqs : MwThrowHandlerThrows(r)
  \/ \E r \in ConcReqs : MwDone(r)
  \/ \E r \in ConcReqs : HandlerStart(r)
  \/ \E r \in ConcReqs : HandlerReturn(r)
  \/ \E r \in ConcReqs : HandlerThrow(r)
  \/ \E r \in ConcReqs : Deliver(r)
  \/ \E r \in ConcReqs, role \in Roles, key \in ConcKeys : UdSet(r, role, key)
  \/ \E r \in ConcReqs, key \in ConcKeys : UdDel(r, key)

SpecServing == InitServing /\ [][NextServing]_vars

\* the steps of the dispatch of request r: the continuations the event loop
\* runs, and the completions of the user functions that were called
PipelineStep(r) ==
  \/ MwStart(r)
  \/ MwReturn(r)
  \/ MwThrow(r)
  \/ MwThrowAsync(r)
  \/ MwThrowHandlerThrows(r)
  \/ MwDone(r)
  \/ HandlerStart(r)
  \/ HandlerReturn(r)
  \/ HandlerThrow(r)

\* the serving router under the assumptions that the event loop runs every
\* continuation that is ready and that every user function that was called
\* completes
SpecServingFair ==
  /\ SpecServing
  /\ \A r \in ConcReqs : WF_vars(PipelineStep(r))
  /\ \A r \in ConcReqs : WF_vars(EhSettle(r))

\* ==================================================== reading a trace
EventsOf(tr, kinds) ==
  LET Keep(x) == x.e \in kinds IN SelectSeq(tr, Keep)
IdsOf(tr, kind) ==
  LET evs == EventsOf(tr, {kind}) IN [i \in 1..Len(evs) |-> evs[i].id]
HasEvent(tr, kind) == \E i \in 1..Len(tr) : tr[i].e = kind
CountOf(tr, kind) == Len(EventsOf(tr, {kind}))
MwStarted(tr) == IdsOf(tr, "mwStart")
IsPrefix(a, b) == Len(a) <= Len(b) /\ a = SubSeq(b, 1, Len(a))
PastLoop(r) == pc[r] \in {"call", "inhandler", "done"}
InFlight(r) == pc[r] # "idle"
\* the step in which the serve primitive hands request r to the dispatch function
DispatchStep(r) == pc[r] = "idle" /\ pc'[r] # "idle"
\* table entry i has the request's method and a pattern matching its path
Takes(i, request) ==
  /\ \E j \in 1..Len(routes[i].method) : routes[i].method[j] = request.method
  /\ patternMatches(routes[i].pattern, request.path)
\* middleware calls come one at a time: every call ends (mwOk / mwFail) before
\* the next begins, and nothing begins after a failure
OneAtATime(tr) ==
  LET m == EventsOf(tr, {"mwStart", "mwOk", "mwFail"})
  IN \A i \in 1..Len(m) :
       /\ (i % 2 = 1) => m[i].e = "mwStart"
       /\ (i % 2 = 0) => m[i].e \in {"mwOk", "mwFail"} /\ m[i].id = m[i - 1].id
       /\ m[i].e = "mwFail" => i = Len(m)

\* ================================================================= C1
\* C1: a request is dispatched to the earliest-registered route whose method
\* equals the request's method and whose pattern matches its path: that
\* route's closure serves it and the only route handler called is its
\* handler; a later route that also takes the request is never called; an
\* earlier route whose pattern matches but whose method differs does not
\* shadow it; the request goes to no route only when no route takes it.
C1_Chosen(r) ==
  /\ matched[r] \in 0..Len(routes)
  /\ matched[r] # 0 =>
       /\ Takes(matched[r], req[r])
       /\ \A i \in 1..(matched[r] - 1) : ~Takes(i, req[r])
       /\ chain[r] = routes[matched[r]].handler
       /\ chain[r].handler = RouteHandler(matched[r])
  /\ \A i \in 1..Len(trace[r]) :
       trace[r][i].e \in {"handlerStart", "handlerOk", "handlerFail"} =>
         trace[r][i].id = chain[r].handler
  /\ CountOf(trace[r], "handlerStart") <= 1

C1_RegistrationOrderPrecedence ==
  [][\A r \in Reqs :
       /\ InFlight(r)' => C1_Chosen(r)'
       /\ (DispatchStep(r) /\ matched'[r] = 0) =>
            \A i \in 1..Len(routes) : ~Takes(i, req'[r])]_vars

\* two routes both take the request; the first one served it
C1_Witness ==
  \E r \in Reqs :
    /\ pc[r] = "done"
    /\ Len(routes) >= 2
    /\ Takes(1, req[r]) /\ Takes(2, req[r])
    /\ matched[r] = 1
    /\ IdsOf(trace[r], "handlerOk") = <<RouteHandler(1)>>

\* ================================================================= C2
\* C2 (as claimed): once a middleware of a request has failed, the error
\* handler has been called exactly once for that request and its terminal
\* handler (route handler or not-found handler) is not called.
C2_FailureSkipsHandler ==
  \A r \in Reqs :
    (HasEvent(trace[r], "mwFail") /\ PastLoop(r)) =>
      /\ CountOf(trace[r], "errorHandler")
           + CountOf(trace[r], "errorHandlerFail") = 1
      /\ ~HasEvent(trace[r], "handlerStart")

\* ================================================================= C3
\* C3 (as claimed): when a middleware failed during a request and the error
\* handler returned a Response, that Response is what the dispatch function
\* returns for the request.
C3_ErrorResponseDelivered ==
  \A r \in Reqs :
    (pc[r] = "done" /\ HasEvent(trace[r], "errorHandler")) =>
      outcome[r] = Response(chain[r].errorHandler)

\* ================================================================= C4
\* C4: for a request matched to a route, the middleware started are, in
\* order, the global middleware that use() had pushed when the route was
\* registered (in use() order) followed by the route's own middleware (in the
\* order passed); each starts only after the previous one completed; after a
\* failure none is started; without a failure all of them ran before the
\* handler is called.
C4_Order(r) ==
  LET c == routes[matched[r]].handler.middlewares
      own == perRoute[matched[r]]
      ng == Len(c) - Len(own)
      started == MwStarted(trace[r])
  IN /\ ng \in 0..Len(globalMiddlewares)
     /\ c = SubSeq(globalMiddlewares, 1, ng) \o own
     /\ IsPrefix(started, c)
     /\ OneAtATime(trace[r])
     /\ (PastLoop(r) /\ ~HasEvent(trace[r], "mwFail")) => started = c
     /\ HasEvent(trace[r], "handlerStart") => PastLoop(r)

C4_MiddlewareOrder ==
  \A r \in Reqs : (InFlight(r) /\ matched[r] # 0) => C4_Order(r)

\* a request ran one global and two per-route middleware, all successful
C4_Witness ==
  \E r \in Reqs :
    /\ pc[r] = "done"
    /\ matched[r] # 0
    /\ MwStarted(trace[r]) = <<GlobalMw(1), RouteMw(1), RouteMw(2)>>
    /\ CountOf(trace[r], "mwOk") = 3

\* ================================================================= C5
\* what holds of every unmatched request: it is served by a not-found
\* closure and calls nothing that belongs to a route
C5_NoRouteCode(r) ==
  /\ chain[r].kind \in {"default", "deno"}
  /\ chain[r].kind = "default" =>
       chain[r].handler = DefaultNotFound /\ chain[r].middlewares = <<>>
  /\ chain[r].kind = "deno" => chain[r].handler \in NotFoundHandlers
  /\ \A i \in 1..Len(trace[r]) :
       /\ trace[r][i].e \in {"mwStart", "mwOk", "mwFail"} =>
            \E k \in 1..Len(globalMiddlewares) :
              trace[r][i].id = globalMiddlewares[k]
       /\ trace[r][i].e \in {"handlerStart", "handlerOk", "handlerFail"} =>
            trace[r][i].id = chain[r].handler

\* C5 (as claimed): a request that no route takes runs the global middleware
\* (the list as it is when the request arrives) and then the not-found
\* handler, whatever the configuration history.
C5_RunsGlobalMiddleware ==
  [][\A r \in Reqs :
       /\ (InFlight(r)' /\ matched'[r] = 0) => C5_NoRouteCode(r)'
       /\ (DispatchStep(r) /\ matched'[r] = 0) =>
            chain'[r].middlewares = globalMiddlewares]_vars

\* C5 (amended): a request that no route takes calls no route's middleware
\* and no route's handler; the middleware it runs are those compiled into
\* the not-found handler that serves it -- the global middleware use() had
\* pushed when onNotFound compiled it, none for the default handler -- in
\* order, up to the first failure, and the only handler it calls is that
\* not-found handler, after the middleware.
C5_NotFoundChain ==
  \A r \in Reqs :
    (InFlight(r) /\ matched[r] = 0) =>
      /\ C5_NoRouteCode(r)
      /\ IsPrefix(chain[r].middlewares, globalMiddlewares)
      /\ IsPrefix(MwStarted(trace[r]), chain[r].middlewares)
      /\ OneAtATime(trace[r])
      /\ (PastLoop(r) /\ ~HasEvent(trace[r], "mwFail")) =>
           MwStarted(trace[r]) = chain[r].middlewares
      /\ (HasEvent(trace[r], "handlerStart") /\ chain[r].kind = "deno") =>
           PastLoop(r)

\* a route with its own middleware exists, the request went to a compiled
\* not-found handler instead and ran its one global middleware
C5_Witness ==
  \E r \in Reqs :
    /\ pc[r] = "done"
    /\ matched[r] = 0
    /\ Len(routes) >= 1 /\ Len(perRoute[1]) >= 1
    /\ chain[r].kind = "deno"
    /\ MwStarted(trace[r]) = <<GlobalMw(1)>>
    /\ IdsOf(trace[r], "handlerOk") = <<chain[r].handler>>

\* ================================================================= C6
\* C6: onNotFound compiles the not-found handler with a copy of the global
\* middleware list as it is at that call; a later use() changes neither the
\* compiled handler, nor the one listen() captured, nor the chain of a
\* request in flight.
C6_NotFoundSnapshot ==
  [][/\ notFoundHandler' # notFoundHandler =>
          /\ notFoundHandler'.kind = "deno"
          /\ notFoundHandler'.middlewares = globalMiddlewares
          /\ globalMiddlewares' = globalMiddlewares
     /\ globalMiddlewares' # globalMiddlewares =>
          /\ notFoundHandler' = notFoundHandler
          /\ served' = served
          /\ chain' = chain]_vars

\* use() was called after onNotFound, and an unmatched request ran only the
\* middleware of the snapshot
C6_Witness ==
  \E r \in Reqs :
    /\ pc[r] = "done"
    /\ matched[r] = 0
    /\ chain[r] = notFoundHandler
    /\ notFoundHandler.kind = "deno"
    /\ notFoundHandler.middlewares = <<GlobalMw(1)>>
    /\ Len(globalMiddlewares) = 2
    /\ MwStarted(trace[r]) = <<GlobalMw(1)>>

\* ================================================================= C7
\* C7: when every middleware of a request succeeded and the terminal handler
\* failed, the error handler is not called and the dispatch function's
\* outcome is that failure.
C7_HandlerFailurePropagates ==
  \A r \in Reqs :
    (HasEvent(trace[r], "handlerFail") /\ ~HasEvent(trace[r], "mwFail")) =>
      /\ ~HasEvent(trace[r], "errorHandler")
      /\ pc[r] = "done"
      /\ outcome[r] = Rejected(chain[r].handler)

\* a handler failed after its middleware succeeded
C7_Witness ==
  \E r \in Reqs :
    /\ pc[r] = "done"
    /\ CountOf(trace[r], "mwOk") >= 1
    /\ ~HasEvent(trace[r], "mwFail")
    /\ HasEvent(trace[r], "handlerFail")
    /\ outcome[r].type = "rejected"

\* ================================================================= C8
\* C8 (as claimed): a middleware failure is routed to the currently
\* configured error handler; the default 500 handler is called only while
\* onError has never been called.
C8_CurrentErrorHandler ==
  [][\A r \in Reqs :
       (/\ Len(trace'[r]) > Len(trace[r])
        /\ trace'[r][Len(trace'[r])].e
             \in {"errorHandler", "errorHandlerFail"}) =>
         trace'[r][Len(trace'[r])].id = errorHandler]_vars

\* ================================================================= C9
\* C9: a route registered after listen() is part of the table every later
\* request is matched against, with the same precedence: if such a route
\* takes the request, the request goes to it or to an earlier route, and to
\* no route that is not yet registered.
C9_LateRegistration ==
  [][\A r \in Reqs :
       DispatchStep(r) =>
         /\ matched'[r] \in 0..Len(routes)
         /\ \A i \in (listenLen + 1)..Len(routes) :
              Takes(i, req'[r]) =>
                /\ matched'[r] \in 1..i
                /\ chain'[r] = routes[matched'[r]].handler]_vars

\* a request was served by a route registered after listen()
C9_Witness ==
  \E r \in Reqs :
    /\ pc[r] = "done"
    /\ matched[r] > listenLen
    /\ IdsOf(trace[r], "handlerOk") = <<RouteHandler(matched[r])>>

\* ================================================================ C10
\* C10 (as claimed): an unmatched request is served by the not-found handler
\* compiled at the most recent onNotFound call before it (the default one if
\* there was none), also when that call came after listen().
C10_LatestNotFound ==
  [][\A r \in Reqs :
       (DispatchStep(r) /\ matched'[r] = 0) =>
         chain'[r] = notFoundHandler]_vars

\* what the calls made so far leave under key: the value of the latest set
\* not followed by a del, or nothing
RECURSIVE Latest(_, _)
Latest(h, key) ==
  IF h = <<>> THEN [present |-> FALSE, value |-> Undefined]
  ELSE LET o == h[Len(h)]
       IN IF o.key = key /\ o.op = "set"
          THEN [present |-> TRUE, value |-> o.value]
          ELSE IF o.key = key /\ o.op = "del"
          THEN [present |-> FALSE, value |-> Undefined]
          ELSE Latest(SubSeq(h, 1, Len(h) - 1), key)

\* C11: after any sequence of set/get/del calls on one store, get(k) returns
\* the value of the latest set(k, v) not followed by del(k) and undefined
\* otherwise; del(k) returns true exactly when k was present just before and
\* leaves k absent, so a second del in a row returns false; what is held
\* under the other keys is not touched
C11_UserDataStore ==
  \A r \in Reqs :
    LET m == heap[newStore(r)]
        n == Len(ops)
    IN /\ \A key \in Keys : udGet(m, key) = Latest(ops, key).value
       /\ n > 0 =>
            LET o == ops[n]
                before == SubSeq(ops, 1, n - 1)
            IN /\ o.op = "get" => ret = Latest(before, o.key).value
               /\ o.op = "del" =>
                    /\ ret = Latest(before, o.key).present
                    /\ udGet(m, o.key) = Undefined
                    /\ ~mapHas(m, o.key)
               /\ \A key \in Keys \ {o.key} :
                    Latest(ops, key) = Latest(before, key)
       /\ (n > 1 /\ ops[n].op = "del" /\ ops[n - 1].op = "del"
             /\ ops[n].key = ops[n - 1].key) => ret = FALSE

\* a key set, overwritten and deleted, the del answering true
C11_Witness ==
  /\ Len(ops) = 3
  /\ ops[1].op = "set" /\ ops[2].op = "set" /\ ops[3].op = "del"
  /\ ops[1].key = ops[2].key /\ ops[2].key = ops[3].key
  /\ ops[1].value # ops[2].value
  /\ ret = TRUE

\* ================================================================ C12
\* C12: with several requests in flight and their steps interleaved, the
\* middleware calls of one request come one at a time, and the terminal
\* handler of a request starts only after every middleware of its chain has
\* completed, or after the chain was aborted to the error handler and the
\* error handler, asynchronous or not, has completed.
C12_HandlerAfterChain ==
  \A r \in ConcReqs :
    /\ OneAtATime(trace[r])
    /\ \A i \in 1..Len(trace[r]) :
         trace[r][i].e = "handlerStart" =>
           LET before == SubSeq(trace[r], 1, i - 1)
           IN \/ CountOf(before, "mwOk") = Len(chain[r].middlewares)
              \/ /\ HasEvent(before, "mwFail")
                 /\ \/ HasEvent(before, "errorHandler")
                    \/ HasEvent(before, "errorHandlerEnd")

\* ================================================================ C13
\* what get(key) returns to the functions of request r
Reads(r, key) == udGet(heap[ctxStore[r]], key)
\* everything request r can read was stored by a function of request r
C13_OwnValuesOnly(r) ==
  ctxStore[r] # 0 =>
    \A key \in ConcKeys :
      Reads(r, key) \in {Undefined} \cup {Stamp(r, role) : role \in Roles}
\* C13: a dispatch makes a new context whose userData holds nothing, on a Map
\* no other request in flight uses; whatever the functions of one request
\* set or delete, get in another request never returns it, whether the two
\* requests are on different routes or on the same one.
C13_ContextIsolation ==
  [][\A r \in ConcReqs :
       /\ (DispatchStep(r) /\ ctxStore'[r] # 0) =>
            /\ \A key \in ConcKeys : Reads(r, key)' = Undefined
            /\ \A o \in ConcReqs \ {r} : ctxStore'[o] # ctxStore'[r]
       /\ C13_OwnValuesOnly(r)']_vars

\* two requests on the same route, each reading back its own value
C13_Witness ==
  /\ \A r \in ConcReqs : pc[r] = "inhandler" /\ matched[r] = 1
  /\ \A r \in ConcReqs, key \in ConcKeys : Reads(r, key) = Stamp(r, "mw")

\* ================================================================ C14
\* C14: the middleware, the handler and the error handler of one request are
\* given the same context: what one of them stored under a key is what get
\* returns to every later one, from call to call, until a function of that
\* request sets the key again or deletes it.
C14_SharedContext ==
  [][\A r \in ConcReqs :
       (/\ ctxStore[r] # 0
        /\ pc'[r] # "idle"
        /\ ~(\E role \in Roles, key \in ConcKeys : UdSet(r, role, key))
        /\ ~(\E key \in ConcKeys : UdDel(r, key)))
       => \A key \in ConcKeys : Reads(r, key)' = Reads(r, key)]_vars

\* the handler and the error handler of a request running, both reading what
\* a middleware of the request stored
C14_Witness ==
  \E r \in ConcReqs :
    /\ pc[r] = "inhandler"
    /\ ehState[r] = "running"
    /\ \E key \in ConcKeys : Reads(r, key) = Stamp(r, "mw")

\* ================================================================ C15
\* the calls of the error handler recorded in a trace, however they ended
ErrorHandlerCalls == {"errorHandler", "errorHandlerFail", "errorHandlerStart"}
\* C15: in the course of one request the error handler is called at most
\* once, and a call of it is always the answer to a middleware failure: it
\* comes right after the failure of a middleware, never after the failure of
\* the terminal handler and never without a failure.
C15_ErrorHandlerOnce ==
  \A r \in ConcReqs :
    /\ Len(EventsOf(trace[r], ErrorHandlerCalls)) <= 1
    /\ \A i \in 1..Len(trace[r]) :
         trace[r][i].e \in ErrorHandlerCalls =>
           i > 1 /\ trace[r][i - 1].e = "mwFail"

\* a middleware failed and the error handler was called; the terminal handler
\* then failed too and the error handler was not called again
C15_Witness ==
  \E r \in ConcReqs :
    /\ HasEvent(trace[r], "mwFail")
    /\ HasEvent(trace[r], "handlerFail")
    /\ Len(EventsOf(trace[r], ErrorHandlerCalls)) = 1

\* ================================================================ C16
\* the terminal handlers called for request r so far
HandlersCalled(r) == IdsOf(trace[r], "handlerStart")
\* at most one terminal handler is called, once: the handler of the route
\* chosen when there is one, a not-found handler when there is none
C16_OneHandler(r) ==
  /\ Len(HandlersCalled(r)) <= 1
  /\ pc[r] = "inhandler" => Len(HandlersCalled(r)) = 1
  /\ \A i \in 1..Len(HandlersCalled(r)) : HandlersCalled(r)[i] = chain[r].handler
  /\ InFlight(r) =>
       IF matched[r] # 0
       THEN chain[r] = routes[matched[r]].handler
       ELSE chain[r].kind \in {"deno", "default"}
\* C16: a request is handed to exactly one terminal handler and that handler
\* is called at most once: a route's handler when a registered route has the
\* request's method and a pattern matching its path, the not-found handler
\* when, and only when, no registered route does; a not-found handler is
\* never called in addition to a route handler.
C16_SingleTerminalHandler ==
  [][\A r \in Reqs :
       /\ DispatchStep(r) =>
            (matched'[r] = 0 <=>
               ~(\E i \in 1..Len(routes) : Takes(i, req'[r])))
       /\ C16_OneHandler(r)']_vars

\* routes are registered, none takes the request, and the handler given to
\* onNotFound is the one handler that was called
C16_Witness ==
  \E r \in Reqs :
    /\ pc[r] = "done"
    /\ Len(routes) > 0
    /\ matched[r] = 0
    /\ Len(HandlersCalled(r)) = 1
    /\ chain[r].kind = "deno"

\* ================================================================ C17
\* the HTTP method each registration function stands for
MethodOf ==
  [get |-> "GET", post |-> "POST", put |-> "PUT", delete |-> "DELETE",
   patch |-> "PATCH"]
\* C17: the route table only grows at its end: a registration through get,
\* post, put, delete or patch adds exactly one route after the routes already
\* there, with the one upper-cased method of the function used and the
\* pattern given, and leaves the earlier routes and their order as they
\* were; use, onError and onNotFound leave the table as it is, and so does
\* every other step.
C17_AppendOnly ==
  [][/\ \A m \in RegNames, p \in Patterns, n \in RouteMwCounts :
          Register(m, p, RouteHandler(Len(routes) + 1), RouteArgs(n)) =>
            /\ Len(routes') = Len(routes) + 1
            /\ SubSeq(routes', 1, Len(routes)) = routes
            /\ routes'[Len(routes')].method = <<MethodOf[m]>>
            /\ routes'[Len(routes')].pattern = p
     /\ (\/ \E n \in UseCounts : Use(GlobalArgs(Len(globalMiddlewares), n))
         \/ \E h \in CustomErrorHandlers : OnError(h)
         \/ \E h \in NotFoundHandlers : OnNotFound(h)) => routes' = routes
     /\ \/ routes' = routes
        \/ Len(routes') = Len(routes) + 1 /\ SubSeq(routes', 1, Len(routes)) = routes
    ]_vars

\* a GET route, then a POST route, then calls of use and onNotFound: the
\* table holds the two routes in the order of their registration
C17_Witness ==
  /\ Len(routes) = 2
  /\ routes[1].method = <<"GET">>
  /\ routes[2].method = <<"POST">>
  /\ Len(globalMiddlewares) > 0
  /\ notFoundHandler.kind = "deno"
  /\ \A i \in 1..2 : routes[i].handler.middlewares = perRoute[i]

\* ================================================================ C18
\* the middleware chain compiled into route i
ChainOf(i) == routes[i].handler.middlewares
\* C18: the middleware chain of a route is settled when the route is
\* registered: it is the global middleware present at that moment followed by
\* the middleware given with the route.  A later use() changes the chain of
\* no route already registered, nor the chain a request in flight is running,
\* and a request matched to the route starts the middleware of that chain
\* and no other.
C18_ChainFixedAtRegistration ==
  [][/\ \A m \in RegNames, p \in Patterns, n \in RouteMwCounts :
          Register(m, p, RouteHandler(Len(routes) + 1), RouteArgs(n)) =>
            routes'[Len(routes')].handler.middlewares =
              globalMiddlewares \o RouteArgs(n)
     /\ (\E n \in UseCounts : Use(GlobalArgs(Len(globalMiddlewares), n))) =>
          /\ \A i \in 1..Len(routes) : ChainOf(i)' = ChainOf(i)
          /\ chain' = chain
     /\ \A i \in 1..Len(routes) : ChainOf(i)' = ChainOf(i)
     /\ \A r \in Reqs :
          (pc'[r] # "idle" /\ matched'[r] # 0) =>
            IsPrefix(MwStarted(trace'[r]),
                     routes'[matched'[r]].handler.middlewares)
    ]_vars

\* a route registered after one use() and before another served a request
\* with the chain of its registration: the later global middleware is not in
\* it and was not started
C18_Witness ==
  \E r \in Reqs :
    /\ pc[r] = "done"
    /\ matched[r] # 0
    /\ MwStarted(trace[r]) = ChainOf(matched[r])
    /\ Len(ChainOf(matched[r])) > Len(perRoute[matched[r]])
    /\ Len(globalMiddlewares) >
         Len(ChainOf(matched[r])) - Len(perRoute[matched[r]])

\* ================================================================ C19
\* no element of a sequence occurs in it twice
NoRepeat(s) == \A i, j \in 1..Len(s) : s[i] = s[j] => i = j
\* the dispatch of r is complete exactly when it has its outcome, a Response
\* or a failure; nothing was called a second time
C19_OneOutcome(r) ==
  /\ pc[r] = "done" <=> outcome[r] # NoOutcome
  /\ outcome[r].type \in {None, "response", "rejected"}
  /\ NoRepeat(MwStarted(trace[r]))
  /\ Len(MwStarted(trace[r])) <= Len(chain[r].middlewares)
  /\ CountOf(trace[r], "handlerStart") <= 1
\* C19: provided every middleware, handler and error handler that is called
\* completes, the dispatch of a request completes, with exactly one outcome:
\* one Response or one failure handed to the serve primitive, which does not
\* change afterwards; no middleware and no handler is called a second time.
C19_DispatchCompletes ==
  /\ \A r \in ConcReqs : (pc[r] # "idle") ~> (pc[r] = "done")
  /\ [](\A r \in ConcReqs : C19_OneOutcome(r))
  /\ [][\A r \in ConcReqs :
          (outcome[r] # NoOutcome /\ pc'[r] # "idle") =>
            outcome'[r] = outcome[r]]_vars

\* a dispatch that went through the whole chain and completed with a
\* Response while the other request was still in its chain
C19_Witness ==
  \E r \in ConcReqs, o \in ConcReqs :
    /\ pc[r] = "done"
    /\ outcome[r].type = "response"
    /\ Len(MwStarted(trace[r])) = 3
    /\ pc[o] = "inmw"

====
